---- MODULE Spec2Model ----
(***************************************************************************)
(* Model of the Semantix world-book vectorizer backend:                    *)
(*   - chunkText / processWorldBook   (src/utils/chunking.ts)              *)
(*   - EmbeddingService               (src/services/embeddingService.ts)   *)
(* Texts are sequences of one-character strings.                           *)
(***************************************************************************)
EXTENDS Integers, Sequences, FiniteSets, TLC

\* ------------------------------------------------------------------ bounds
MaxLen == 4        \* longest enumerated text
MaxNeg == 2        \* sizes are drawn from -MaxNeg .. MaxSize
MaxSize == 5
MaxEntries == 2    \* entries of a world book
MaxBatch == 3      \* chunks handed to generateEmbeddings
MaxWindow == 3     \* processWorldBook sizes are drawn from -1 .. MaxWindow
MaxIngestEntries == 1  \* entries of a world book posted for ingestion
MaxLimit == 2      \* /search limits are drawn from -1 .. MaxLimit and the default
MaxCandidates == 3 \* results in an answer of the vector store

\* ------------------------------------------------------------- text values
Alphabet == {"a", "b"}

RECURSIVE TextsOfLen(_)
TextsOfLen(n) ==
    IF n = 0 THEN {<< >>}
    ELSE {Append(t, c) : t \in TextsOfLen(n - 1), c \in Alphabet}

BoundedTexts == UNION {TextsOfLen(n) : n \in 0..MaxLen}

HelloWorld == <<"h", "e", "l", "l", "o", " ", "w", "o", "r", "l", "d">>
Abcdefgh == <<"a", "b", "c", "d", "e", "f", "g", "h">>

Texts == BoundedTexts \cup {HelloWorld, Abcdefgh}
Sizes == (0 - MaxNeg)..MaxSize

Min(a, b) == IF a <= b THEN a ELSE b
Max(a, b) == IF a >= b THEN a ELSE b

\* String.prototype.substring: both indices are clamped to [0, length] and
\* swapped when the first exceeds the second.
Clamp(n, len) == Max(0, Min(n, len))
substring(s, a, b) ==
    LET ca == Clamp(a, Len(s))
        cb == Clamp(b, Len(s))
    IN  SubSeq(s, Min(ca, cb) + 1, Max(ca, cb))

\* --------------------------------------------------------------- chunkText
\* variant: strict comparison in the guard
InvalidSizes_Strict(cs, os) == cs < os

\* the guard of chunking.ts:13
InvalidSizes(cs, os) == cs <= os

\* variant: the window end is not clamped to the text length
WindowEnd_Unclamped(t, st, cs) == st + cs

\* variant: the window end is clamped to the last index
WindowEnd_ShortByOne(t, st, cs) == Min(st + cs, Len(t) - 1)

\* chunking.ts:21
WindowEnd(t, st, cs) == Min(st + cs, Len(t))

\* variant: the cursor advances by the whole window
Stride_NoOverlap(cs, os) == cs

\* variant: the cursor advances one position less
Stride_OffByOne(cs, os) == cs - os - 1

\* chunking.ts:30
Stride(cs, os) == cs - os

\* One iteration of the while loop (chunking.ts:20-31) from cursor st with
\* the chunks emitted so far.
LoopBody(t, cs, os, st, acc) ==
    LET end == WindowEnd(t, st, cs)
    IN  [chunks |-> Append(acc, substring(t, st, end)),
         brk    |-> (end = Len(t)),
         start  |-> IF end = Len(t) THEN st ELSE st + Stride(cs, os)]

\* variant: inclusive loop condition
LoopCond_Inclusive(t, st) == st <= Len(t)

\* chunking.ts:20, the loop condition
LoopCond(t, st) == st < Len(t)

\* The number of iterations is capped by the text length (every iteration of
\* the source's loop with a positive stride consumes at least one position).
WithinCap(t, acc) == Len(acc) <= Len(t)

RECURSIVE chunkLoop(_, _, _, _, _)
chunkLoop(t, cs, os, st, acc) ==
    IF LoopCond(t, st) /\ WithinCap(t, acc)
    THEN LET b == LoopBody(t, cs, os, st, acc)
         IN  IF b.brk THEN b.chunks
             ELSE chunkLoop(t, cs, os, b.start, b.chunks)
    ELSE acc

\* chunkText as a function: thrown, or the returned array
chunkText(t, cs, os) ==
    IF InvalidSizes(cs, os)
    THEN [thrown |-> TRUE, chunks |-> << >>]
    ELSE [thrown |-> FALSE, chunks |-> chunkLoop(t, cs, os, 0, << >>)]

\* ------------------------------------------------------- processWorldBook
\* The text fields of the enumerated entries.  The other fields of a
\* WorldBookEntry (key, keysecondary, the activation flags) are copied to
\* every chunk verbatim and read by nothing else; uid stands for them.
ContentTexts == {<< >>, <<"X">>, <<"a", "b", "c">>}
CommentTexts == {<< >>, <<"b">>, <<"a", "b">>}
Uids == {1, 2}
WindowSizes == (0 - 1)..MaxWindow

Entries == [uid : Uids, content : ContentTexts, comment : CommentTexts]

RECURSIVE SeqsUpTo(_, _)
SeqsUpTo(S, n) ==
    IF n = 0 THEN {<< >>}
    ELSE LET shorter == SeqsUpTo(S, n - 1)
         IN  shorter \cup {Append(q, x) : q \in {r \in shorter : Len(r) = n - 1}, x \in S}

WorldBooks == SeqsUpTo(Entries, MaxEntries)

\* variant: content chunks carry no comment
ContentChunk_NoContext(entry, comment, chunk) ==
    [uid |-> entry.uid, comment |-> << >>, content |-> chunk, chunkType |-> "content"]

\* chunking.ts:64-88, the record pushed for one content chunk
ContentChunk(entry, comment, chunk) ==
    [uid |-> entry.uid, comment |-> comment, content |-> chunk, chunkType |-> "content"]

\* chunking.ts:92-116, the record pushed for one comment chunk
CommentChunk(entry, chunk) ==
    [uid |-> entry.uid, comment |-> chunk, content |-> << >>, chunkType |-> "comment"]

MapContent(entry, comment, cks) == [k \in 1..Len(cks) |-> ContentChunk(entry, comment, cks[k])]
MapComment(entry, cks) == [k \in 1..Len(cks) |-> CommentChunk(entry, cks[k])]

\* variant: the two fields are joined and windowed together
EntryChunks_Combined(entry, cs, os) ==
    LET joined == chunkText(entry.content \o entry.comment, cs, os)
    IN  IF entry.content = << >> /\ entry.comment = << >>
        THEN [thrown |-> FALSE, out |-> << >>]
        ELSE IF joined.thrown THEN [thrown |-> TRUE, out |-> << >>]
        ELSE [thrown |-> FALSE, out |-> MapContent(entry, entry.comment, joined.chunks)]

\* chunking.ts:52-118, the body of the for-in loop for one entry: the
\* records it pushes, or thrown when a chunkText call throws
EntryChunks(entry, cs, os) ==
    LET content == entry.content
        comment == entry.comment
    IN  IF content # << >> \/ comment # << >>
        THEN LET contentChunks == chunkText(content, cs, os)
                 commentChunks == chunkText(comment, cs, os)
             IN  IF contentChunks.thrown \/ commentChunks.thrown
                 THEN [thrown |-> TRUE, out |-> << >>]
                 ELSE [thrown |-> FALSE,
                       out |-> MapContent(entry, comment, contentChunks.chunks)
                                  \o MapComment(entry, commentChunks.chunks)]
        ELSE [thrown |-> FALSE, out |-> << >>]

\* chunking.ts:46-123: entries are visited in key order, k is the next one
RECURSIVE processEntries(_, _, _, _, _)
processEntries(entries, k, cs, os, acc) ==
    IF k > Len(entries) THEN [thrown |-> FALSE, out |-> acc]
    ELSE LET r == EntryChunks(entries[k], cs, os)
         IN  IF r.thrown THEN [thrown |-> TRUE, out |-> << >>]
             ELSE processEntries(entries, k + 1, cs, os, acc \o r.out)

processWorldBook(wb, cs, os) == processEntries(wb, 1, cs, os, << >>)

\* ------------------------------------------------------- EmbeddingService
Whitespace == {" ", "\t", "\n"}

RECURSIVE TrimLeft(_)
TrimLeft(t) == IF t # << >> /\ t[1] \in Whitespace THEN TrimLeft(Tail(t)) ELSE t

RECURSIVE TrimRight(_)
TrimRight(t) ==
    IF t # << >> /\ t[Len(t)] \in Whitespace
    THEN TrimRight(SubSeq(t, 1, Len(t) - 1)) ELSE t

\* String.prototype.trim
Trim(t) == TrimRight(TrimLeft(t))

\* variant: the text is not trimmed
TextToEmbed_NoTrim(chunk) == chunk.comment \o <<" ">> \o chunk.content

\* embeddingService.ts:39
TextToEmbed(chunk) == Trim(chunk.comment \o <<" ">> \o chunk.content)

\* embeddingService.ts:41
IsBlank(t) == t = << >>

\* JavaScript values that are either undefined or an array
Undefined == [tag |-> "undefined", items |-> << >>]
Arr(v) == [tag |-> "array", items |-> v]
EmptyVector == Arr(<< >>)

\* configManager.ts:15-17
defaultProvider == "bananabread"
defaultChunkSize == 450
defaultOverlapSize == 50

\* The provider registry (config/index.ts:62-111) is a plain object: a lookup
\* finds its own keys and, through the prototype chain, the members of
\* Object.prototype, which are functions and not provider profiles.
RegistryKeys == {"ollama", "llamacpp", "openai", "bananabread", "custom"}
PrototypeKeys == {"toString", "constructor"}
ProviderNames == {"bananabread", "missing", "toString"}

\* this.config[providerName], embeddingService.ts:27
ConfigLookup(name) ==
    IF name \in RegistryKeys THEN [kind |-> "profile", name |-> name]
    ELSE IF name \in PrototypeKeys THEN [kind |-> "inherited", name |-> name]
    ELSE [kind |-> "undefined", name |-> name]

\* embeddingService.ts:28, !providerConfig
ProviderNotFound(providerConfig) == providerConfig.kind = "undefined"

\* embeddingService.ts:98-99: destructuring a value that has no baseUrl and
\* calling baseUrl.replace throws a TypeError before any request is built
ThrowsBeforeFetch(providerConfig) == providerConfig.kind # "profile"

\* What a provider can answer.  reject: fetch itself fails; otherwise an HTTP
\* response with its ok flag and, when ok, a JSON body.  One body per shape
\* the response handling tells apart.
Vectors == {Arr(<<1>>), Arr(<<2, 3>>)}
Items == {[embedding |-> Undefined], [embedding |-> Arr(<<1>>)]}
DataValues == {Undefined, Arr(<< >>)} \cup {Arr(<<it>>) : it \in Items}
Bodies ==
    [error : {FALSE}, data : DataValues, embedding : {Undefined, Arr(<<2, 3>>)}]
    \cup {[error |-> TRUE, data |-> Undefined, embedding |-> Undefined]}
NoBody == [error |-> FALSE, data |-> Undefined, embedding |-> Undefined]
Responses ==
    {[kind |-> "reject", ok |-> FALSE, body |-> NoBody],
     [kind |-> "http", ok |-> FALSE, body |-> NoBody]}
    \cup {[kind |-> "http", ok |-> TRUE, body |-> b] : b \in Bodies}

Threw == [threw |-> TRUE, value |-> Undefined]
Resolved(v) == [threw |-> FALSE, value |-> v]

\* embeddingService.ts:153-180: what getEmbedding does with the answer
HandleResponse(r) ==
    IF r.kind = "reject" THEN Threw
    ELSE IF ~r.ok THEN Threw
    ELSE IF r.body.error THEN Threw
    ELSE IF r.body.data.tag = "array" /\ Len(r.body.data.items) > 0
         THEN Resolved(r.body.data.items[1].embedding)
    ELSE IF r.body.embedding.tag = "array"
         THEN Resolved(r.body.embedding)
    ELSE Threw

\* The error a throw site of getEmbedding raises (embeddingService.ts:91,
\* 99, 153, 161, 168, 179)
ErrorKind(r) ==
    IF r.kind = "reject" THEN "FetchRejected"
    ELSE IF ~r.ok THEN "HttpError"
    ELSE IF r.body.error THEN "ProviderReportedError"
    ELSE "UnexpectedResponseFormat"

\* embeddingService.ts:99: the URL is observed only through url.includes, so
\* a URL is the set of the marker substrings it contains
Markers == {"ollama", "openai", "llamacpp", "localhost:8008"}

\* variant: the llama.cpp branch tests one substring only
PayloadField_LlamaOnly(markers) ==
    IF "ollama" \in markers THEN "prompt"
    ELSE IF "openai" \in markers THEN "input"
    ELSE IF "llamacpp" \in markers THEN "content"
    ELSE "text"

\* embeddingService.ts:102 and 122-145: the payload field that carries the
\* text (defaultParams is opaque and left out)
PayloadField(markers) ==
    IF "ollama" \in markers THEN "prompt"
    ELSE IF "openai" \in markers THEN "input"
    ELSE IF "llamacpp" \in markers \/ "localhost:8008" \in markers THEN "content"
    ELSE "text"

\* The provider argument of getEmbedding: a name, or a ProviderConfig object
ConfigObject == [byName |-> FALSE, name |-> "object"]
ProviderParams == {[byName |-> TRUE, name |-> n] : n \in ProviderNames} \cup {ConfigObject}

\* embeddingService.ts:88-96
ResolveParam(param) ==
    IF param.byName THEN ConfigLookup(param.name)
    ELSE [kind |-> "profile", name |-> param.name]

NoRequest == [sent |-> FALSE, field |-> "none"]
NoAnswer == [kind |-> "none", ok |-> FALSE, body |-> NoBody]
NoResult == [threw |-> FALSE, value |-> Undefined, error |-> "none"]

\* ------------------------------ POST /delete-records, /delete-collection
\* The request bodies: kind names the endpoint; valid says that the fields
\* the handler tests (collectionName and an ids array, or name) are there
MaintenanceRequests == [kind : {"records", "collection"}, valid : BOOLEAN]

\* ---------------------------------------------------------- VectorDbService
\* The answers of the vector store to one request: the fetch rejects, or a
\* response arrives with a status that is ok or not
StoreStatuses == {404, 500}
StoreReplies ==
    {[kind |-> "ok", status |-> 200], [kind |-> "reject", status |-> 0]}
    \cup {[kind |-> "notok", status |-> s] : s \in StoreStatuses}

\* variant: a response is taken as a success whatever its status
StoreCallThrows_RejectOnly(reply) == reply.kind = "reject"

\* vectorDbService.ts:61-68 (and the same lines of upsert, search,
\* deleteRecords, deleteCollection): the call throws when the fetch rejects
\* or response.ok is false
StoreCallThrows(reply) == reply.kind # "ok"

\* vectorDbService.ts:66-67: the message of the error names the operation and
\* carries the response's status (0 here when no response arrived)
StoreError(op, reply) == [op |-> op, status |-> reply.status]

\* what the store answered to the request of an operation
StoreAnswered(op, reply) == [op |-> op, kind |-> reply.kind, status |-> reply.status]

\* an error thrown by a step that is not a store call
Thrown(op) == [op |-> op, status |-> 0]

\* ------------------------------------------- POST /vectorize-and-store
\* index.ts:113
vectorDimension == 1024

\* The world books posted to the handler, and the chunkSize and overlapSize
\* query parameters (absent ones take the configured defaults)
IngestEntries == [uid : Uids, content : {<< >>, <<" ">>, <<"a", "b", "c">>},
                  comment : {<< >>, <<"b">>}]
IngestBooks == SeqsUpTo(IngestEntries, MaxIngestEntries)
IngestChunkSizes == {2, defaultChunkSize}
IngestOverlapSizes == {0, defaultOverlapSize}

\* One answer of the embedding provider per outcome of getEmbedding
IngestResponses ==
    {[kind |-> "reject", ok |-> FALSE, body |-> NoBody],
     [kind |-> "http", ok |-> TRUE,
      body |-> [error |-> FALSE, data |-> Arr(<<[embedding |-> Arr(<<1>>)]>>),
                embedding |-> Undefined]],
     [kind |-> "http", ok |-> TRUE,
      body |-> [error |-> FALSE, data |-> Arr(<<[embedding |-> Undefined]>>),
                embedding |-> Undefined]],
     [kind |-> "http", ok |-> TRUE,
      body |-> [error |-> FALSE, data |-> Undefined, embedding |-> Arr(<<2, 3>>)]]}

\* index.ts:105-108
ChunksWithEmbeddings(processedChunks, vectors) ==
    [k \in 1..Len(processedChunks) |->
        [chunk |-> processedChunks[k],
         embedding |-> IF k <= Len(vectors) THEN vectors[k] ELSE Undefined]]

\* variant: only a missing embedding is skipped
HasNoEmbedding_MissingOnly(embedding) == embedding.tag = "undefined"

\* index.ts:130: !chunk.embedding || chunk.embedding.length === 0
HasNoEmbedding(embedding) ==
    embedding.tag = "undefined" \/ Len(embedding.items) = 0

\* index.ts:129: a non-negative integer as the template string prints it
DigitChars == <<"0", "1", "2", "3", "4", "5", "6", "7", "8", "9">>

RECURSIVE Digits(_)
Digits(n) ==
    IF n < 10 THEN <<DigitChars[n + 1]>>
    ELSE Digits(n \div 10) \o <<DigitChars[(n % 10) + 1]>>

\* variant: the id is the uid alone
PointId_UidOnly(uid, index) == Digits(uid)

\* index.ts:129: `${chunk.uid}_${index}`
PointId(uid, index) == Digits(uid) \o <<"_">> \o Digits(index)

\* index.ts:129-145: the point built from the chunk at position index
PointOf(cwe, index) ==
    [id |-> PointId(cwe.chunk.uid, index),
     vector |-> cwe.embedding,
     payload |-> [uid |-> cwe.chunk.uid, comment |-> cwe.chunk.comment,
                  content |-> cwe.chunk.content, chunkType |-> cwe.chunk.chunkType]]

\* index.ts:127-147: map to a point or null, then filter the nulls out
RECURSIVE PointsFrom(_, _)
PointsFrom(cwes, n) ==
    IF n = 0 THEN << >>
    ELSE IF HasNoEmbedding(cwes[n].embedding)
         THEN PointsFrom(cwes, n - 1)
         ELSE Append(PointsFrom(cwes, n - 1), PointOf(cwes[n], n - 1))

PointsToUpsert(cwes) == PointsFrom(cwes, Len(cwes))

ErrorResponse(code) == [status |-> code, chunksProcessed |-> 0, pointsStored |-> 0]

\* ----------------------------------------------------------- POST /search
\* index.ts:175: limit = 10 when the body has none
defaultLimit == 10

\* The request bodies: valid says that queryText and collectionName are both
\* present; limit and rerank are taken from the body as they come
Limits == ((0 - 1)..MaxLimit) \cup {defaultLimit}
Queries == [valid : BOOLEAN, limit : Limits, rerank : BOOLEAN]

\* variant: the store is asked for limit results
SearchLimit_NoOverfetch(limit) == limit

\* index.ts:193
SearchLimit(limit) == limit * 2

\* The configurations POST /config can install (the provider registry is
\* the default one; only the default provider's name varies)
ConfigProviders == ProviderNames \cup {"ollama"}
Configs == [defaultProvider : ConfigProviders]

\* index.ts:210: currentConfig.embeddingProviders[currentConfig.defaultProvider]
RerankProvider(config) == ConfigLookup(config.defaultProvider)

\* One answer of the embedding provider per way the handler can go on
QueryEmbedResponses ==
    {[kind |-> "reject", ok |-> FALSE, body |-> NoBody],
     [kind |-> "http", ok |-> TRUE,
      body |-> [error |-> FALSE, data |-> Arr(<<[embedding |-> Arr(<<1>>)]>>),
                embedding |-> Undefined]],
     [kind |-> "http", ok |-> TRUE,
      body |-> [error |-> FALSE, data |-> Arr(<<[embedding |-> Undefined]>>),
                embedding |-> Undefined]]}

\* vectorDbService.ts:155-160: the k-th result of the store's answer, without
\* a payload or with one whose text is k letters long
NoPayload == [present |-> FALSE, comment |-> << >>, content |-> << >>]
PayloadAt(k) == [present |-> TRUE, comment |-> << >>, content |-> [j \in 1..k |-> "x"]]
Candidate(k, hasPayload) ==
    [id |-> k - 1, score |-> MaxCandidates - k,
     payload |-> IF hasPayload THEN PayloadAt(k) ELSE NoPayload,
     reranked |-> FALSE, rerank_score |-> 0]
CandidateLists ==
    UNION {{[k \in 1..n |-> Candidate(k, f[k])] : f \in [1..n -> BOOLEAN]} :
              n \in 0..MaxCandidates}

\* vectorDbService.ts:143-162: the fetch rejects, the status is not ok, or
\* the results are mapped
StoreAnswers ==
    {[kind |-> r.kind, status |-> r.status, results |-> << >>] :
        r \in {x \in StoreReplies : x.kind # "ok"}}
    \cup {[kind |-> "ok", status |-> 200, results |-> l] : l \in CandidateLists}

\* index.ts:203-204: `${r.payload?.comment || ''} ${r.payload?.content || ''}`.trim()
CandidateDocument(r) ==
    Trim((IF r.payload.present THEN r.payload.comment ELSE << >>)
         \o <<" ">>
         \o (IF r.payload.present THEN r.payload.content ELSE << >>))

\* variant: the blank documents are kept
DocumentsToRerank_Unfiltered(results) ==
    [k \in 1..Len(results) |-> CandidateDocument(results[k])]

\* index.ts:203-205
DocumentsToRerank(results) ==
    SelectSeq([k \in 1..Len(results) |-> CandidateDocument(results[k])],
              LAMBDA doc : Len(doc) > 0)

\* rerank.ts:44-60: the results a reranker can give for n documents, each a
\* 0-based index into the documents with a relevance score; any number of
\* them, in any order, no document twice
Scores == {2, 5, 9}
RerankResults(n) ==
    {l \in SeqsUpTo([index : 0..(n - 1), relevance_score : Scores], n) :
        \A a, b \in 1..Len(l) : a # b => l[a].index # l[b].index}

\* vectorDbService.ts:307-325: the fetch rejects, the status is not ok, the
\* body has an error field, or the body is returned (with or without results)
RerankAnswers(n) ==
    {[kind |-> k, results |-> << >>] : k \in {"reject", "notok", "error", "noresults"}}
    \cup {[kind |-> "ok", results |-> l] : l \in RerankResults(n)}

\* variant: the index is looked up among the candidates that have a document
MapBack_AmongDocuments(results, rr) ==
    [SelectSeq(results, LAMBDA r : CandidateDocument(r) # << >>)[rr.index + 1]
        EXCEPT !.reranked = TRUE, !.rerank_score = rr.relevance_score]

\* index.ts:216-221: the element built for one reranker result
MapBack(results, rr) ==
    [results[rr.index + 1] EXCEPT !.reranked = TRUE,
                                  !.rerank_score = rr.relevance_score]

\* variant: ascending
ComesBefore_Ascending(a, b) == a.rerank_score <= b.rerank_score

\* index.ts:222: the comparator (b.rerank_score || 0) - (a.rerank_score || 0)
\* is not positive, so a stays before b
ComesBefore(a, b) == b.rerank_score - a.rerank_score <= 0

\* Array.prototype.sort is stable: x goes after the last element that stays
\* before it
RECURSIVE InsertSorted(_, _)
InsertSorted(sorted, x) ==
    IF sorted = << >> THEN <<x>>
    ELSE LET last == sorted[Len(sorted)]
         IN  IF ComesBefore(last, x) THEN Append(sorted, x)
             ELSE Append(InsertSorted(SubSeq(sorted, 1, Len(sorted) - 1), x), last)

RECURSIVE SortByRerankScore(_)
SortByRerankScore(list) ==
    IF list = << >> THEN << >>
    ELSE InsertSorted(SortByRerankScore(SubSeq(list, 1, Len(list) - 1)), list[Len(list)])

\* index.ts:216-222
Reranked(results, rerankResults) ==
    SortByRerankScore([k \in 1..Len(rerankResults) |-> MapBack(results, rerankResults[k])])

\* variant: everything is returned
SliceFromZero_All(list, end) == list

\* Array.prototype.slice(0, end): a negative end counts from the end of the
\* list, an end past the list stops at its length
SliceFromZero(list, end) ==
    LET stop == IF end < 0 THEN Max(Len(list) + end, 0) ELSE Min(end, Len(list))
    IN  SubSeq(list, 1, stop)

\* index.ts:227-232
SearchSuccess(list, limit) == [status |-> 200, results |-> SliceFromZero(list, limit)]

\* index.ts:235-238
SearchError(code) == [status |-> code, results |-> << >>]

\* variant: the vector-search results are returned instead
OnRerankError_Fallback(results, limit) == SearchSuccess(results, limit)

\* index.ts:213 and 235-238: rerank throws, the handler's catch answers
OnRerankError(results, limit) == SearchError(500)

\* The chunks handed to generateEmbeddings
EmbedChunks ==
    {[uid |-> 1, comment |-> c[1], content |-> c[2], chunkType |-> "content"] :
        c \in {<< << >>, << >> >>, << << >>, <<" ">> >>,
                << <<"a">>, << >> >>, << <<"a">>, <<"b">> >>}}
Batches == SeqsUpTo(EmbedChunks, MaxBatch)

VARIABLES
    text, chunkSize, overlapSize,   \* arguments of the chunkText call
    start, chunks,                  \* its locals
    pc,                             \* "call", "loop", "returned", "thrown"
    worldBook,                      \* processWorldBook: entries in key order
    processedEntries,               \* its result
    wpc,                            \* "idle", "call", "returned", "thrown"
    inputChunks, providerName,      \* arguments of generateEmbeddings
    i, embeddings, errors,          \* its locals
    calls,                          \* requests sent to the provider, in order
    responses,                      \* what the provider answered, in order
    epc,                            \* "idle", "call", "loop", "await",
                                    \* "returned", "thrown"
    gParam, urlMarkers,             \* getEmbedding: its provider argument and
                                    \* the markers the provider's URL contains
    gRequest, gAnswer, gResult,     \* the request sent, the answer, the outcome
    gpc,                            \* "idle", "call", "await", "returned",
                                    \* "thrown"
    hasEntries,                     \* /vectorize-and-store: the body has entries
    createCalls, upsertCalls,       \* the requests sent to the vector store
    ingestResponse,                 \* the HTTP response of the handler
    ipc,                            \* "idle", "call", "embed", "create",
                                    \* "upsert", "done"
    query,                          \* /search: the request body
    searchCalls, candidates,        \* the store's search requests and answer
    rerankCalls, rerankAnswer,      \* the reranker's requests and its answer
    searchResponse,                 \* the HTTP response of the handler
    spc,                            \* "idle", "call", "embed", "search",
                                    \* "rerank", "done"
    currentConfig,                  \* index.ts: the module's configuration
    caught,                         \* the error a handler's catch block got
    storeLog,                       \* the answers of the vector store
    maintenance,                    \* /delete-records, /delete-collection:
                                    \* the request
    deleteCalls,                    \* the delete requests sent to the store
    maintenanceResponse,            \* the HTTP response of the handler
    mpc                             \* "idle", "call", "await", "done"

chunkVars == <<text, start, chunks, pc>>
sizeVars == <<chunkSize, overlapSize>>
wbVars == <<worldBook, processedEntries, wpc>>
embedVars == <<inputChunks, providerName, i, embeddings, errors, calls, responses, epc>>
getVars == <<gParam, urlMarkers, gRequest, gAnswer, gResult, gpc>>
ingestVars == <<hasEntries, createCalls, upsertCalls, ingestResponse, ipc>>
searchVars == <<query, searchCalls, candidates, rerankCalls, rerankAnswer,
               searchResponse, spc>>
configVars == <<currentConfig>>
errorVars == <<caught, storeLog>>
maintVars == <<maintenance, deleteCalls, maintenanceResponse, mpc>>
restVars == <<getVars, ingestVars, searchVars, configVars, errorVars, maintVars>>
vars == <<chunkVars, sizeVars, wbVars, embedVars, restVars>>

ChunkIdle ==
    /\ text = << >>
    /\ start = 0
    /\ chunks = << >>
    /\ pc = "idle"

WorldBookIdle ==
    /\ worldBook = << >>
    /\ processedEntries = << >>
    /\ wpc = "idle"

EmbedIdle ==
    /\ inputChunks = << >>
    /\ providerName = defaultProvider
    /\ i = 0
    /\ embeddings = << >>
    /\ errors = << >>
    /\ calls = << >>
    /\ responses = << >>
    /\ epc = "idle"

GetIdle ==
    /\ gParam = ConfigObject
    /\ urlMarkers = {}
    /\ gRequest = NoRequest
    /\ gAnswer = NoAnswer
    /\ gResult = NoResult
    /\ gpc = "idle"

NoResponse == [status |-> 0, chunksProcessed |-> 0, pointsStored |-> 0]

IngestIdle ==
    /\ hasEntries = FALSE
    /\ createCalls = << >>
    /\ upsertCalls = << >>
    /\ ingestResponse = NoResponse
    /\ ipc = "idle"

NoQuery == [valid |-> FALSE, limit |-> 0, rerank |-> FALSE]
NoSearchResponse == [status |-> 0, results |-> << >>]
NoRerankAnswer == [kind |-> "none", results |-> << >>]

SearchIdle ==
    /\ query = NoQuery
    /\ searchCalls = << >>
    /\ candidates = << >>
    /\ rerankCalls = << >>
    /\ rerankAnswer = NoRerankAnswer
    /\ searchResponse = NoSearchResponse
    /\ spc = "idle"

\* configManager.ts:14-19, the configuration loaded at start
DefaultConfig == [defaultProvider |-> defaultProvider]
NoError == [op |-> "none", status |-> 0]
NoMaintenance == [kind |-> "none", valid |-> FALSE]

ConfigIdle == currentConfig = DefaultConfig

ErrorIdle == caught = NoError /\ storeLog = << >>

MaintenanceIdle ==
    /\ maintenance = NoMaintenance
    /\ deleteCalls = << >>
    /\ maintenanceResponse = 0
    /\ mpc = "idle"

RestIdle ==
    /\ GetIdle /\ IngestIdle /\ SearchIdle
    /\ ConfigIdle /\ ErrorIdle /\ MaintenanceIdle

Init ==
    /\ text \in Texts
    /\ chunkSize \in Sizes
    /\ overlapSize \in Sizes
    /\ start = 0
    /\ chunks = << >>
    /\ pc = "call"
    /\ WorldBookIdle
    /\ EmbedIdle
    /\ RestIdle

\* chunking.ts:13-18
ChunkTextEnter ==
    /\ pc = "call"
    /\ pc' = IF InvalidSizes(chunkSize, overlapSize) THEN "thrown" ELSE "loop"
    /\ start' = 0
    /\ chunks' = << >>
    /\ UNCHANGED <<text, sizeVars, wbVars, embedVars>>
    /\ UNCHANGED restVars

\* chunking.ts:20-31, one iteration
ChunkTextIterate ==
    /\ pc = "loop"
    /\ LoopCond(text, start)
    /\ WithinCap(text, chunks)
    /\ LET b == LoopBody(text, chunkSize, overlapSize, start, chunks)
       IN  /\ chunks' = b.chunks
           /\ start' = b.start
           /\ pc' = IF b.brk THEN "returned" ELSE "loop"
    /\ UNCHANGED <<text, sizeVars, wbVars, embedVars>>
    /\ UNCHANGED restVars

\* chunking.ts:20 (condition false) and 33
ChunkTextReturn ==
    /\ pc = "loop"
    /\ ~LoopCond(text, start)
    /\ pc' = "returned"
    /\ UNCHANGED <<text, start, chunks, sizeVars, wbVars, embedVars>>
    /\ UNCHANGED restVars

Next == ChunkTextEnter \/ ChunkTextIterate \/ ChunkTextReturn

Spec == Init /\ [][Next]_vars

FairSpec == Spec /\ WF_vars(Next)

\* ------------------------------------------------ processWorldBook as a call
InitWorldBook ==
    /\ worldBook \in WorldBooks
    /\ chunkSize \in WindowSizes
    /\ overlapSize \in WindowSizes
    /\ processedEntries = << >>
    /\ wpc = "call"
    /\ ChunkIdle
    /\ EmbedIdle
    /\ RestIdle

\* chunking.ts:46-123 (the function awaits nothing: one step)
ProcessWorldBook ==
    /\ wpc = "call"
    /\ LET r == processWorldBook(worldBook, chunkSize, overlapSize)
       IN  /\ processedEntries' = r.out
           /\ wpc' = IF r.thrown THEN "thrown" ELSE "returned"
    /\ UNCHANGED <<worldBook, chunkVars, sizeVars, embedVars>>
    /\ UNCHANGED restVars

NextWorldBook == ProcessWorldBook

SpecWorldBook == InitWorldBook /\ [][NextWorldBook]_vars

\* ---------------------------------------------- generateEmbeddings as a call
InitEmbed ==
    /\ inputChunks \in Batches
    /\ providerName \in ProviderNames
    /\ i = 0
    /\ embeddings = << >>
    /\ errors = << >>
    /\ calls = << >>
    /\ responses = << >>
    /\ epc = "call"
    /\ chunkSize = defaultChunkSize
    /\ overlapSize = defaultOverlapSize
    /\ ChunkIdle
    /\ WorldBookIdle
    /\ RestIdle

providerConfig == ConfigLookup(providerName)

\* chunks[i] of the source (0-based)
CurrentChunk == inputChunks[i + 1]

\* embeddingService.ts:27-35
GenerateEmbeddingsEnter ==
    /\ epc = "call"
    /\ epc' = IF ProviderNotFound(providerConfig) THEN "thrown" ELSE "loop"
    /\ i' = 0
    /\ embeddings' = << >>
    /\ errors' = << >>
    /\ UNCHANGED <<inputChunks, providerName, calls, responses,
                   chunkVars, sizeVars, wbVars>>
    /\ UNCHANGED restVars

\* embeddingService.ts:37-45, an iteration on a chunk with blank text
SkipEmptyChunk ==
    /\ epc = "loop"
    /\ i < Len(inputChunks)
    /\ IsBlank(TextToEmbed(CurrentChunk))
    /\ embeddings' = Append(embeddings, EmptyVector)
    /\ i' = i + 1
    /\ UNCHANGED <<inputChunks, providerName, errors, calls, responses, epc,
                   chunkVars, sizeVars, wbVars>>
    /\ UNCHANGED restVars

\* embeddingService.ts:37-48 and 98-157: the iteration enters getEmbedding,
\* which sends the request and awaits the answer
SendRequest ==
    /\ epc = "loop"
    /\ i < Len(inputChunks)
    /\ ~IsBlank(TextToEmbed(CurrentChunk))
    /\ ~ThrowsBeforeFetch(providerConfig)
    /\ calls' = Append(calls, [index |-> i, text |-> TextToEmbed(CurrentChunk)])
    /\ epc' = "await"
    /\ UNCHANGED <<inputChunks, providerName, i, embeddings, errors, responses,
                   chunkVars, sizeVars, wbVars>>
    /\ UNCHANGED restVars

\* embeddingService.ts:54-60: what the catch block does
CatchFailure ==
    /\ errors' = Append(errors, i + 1)
    /\ embeddings' = Append(embeddings, EmptyVector)

\* embeddingService.ts:47-60 and 98-99: getEmbedding throws before it sends
\* anything, the catch block records the failure
FailBeforeFetch ==
    /\ epc = "loop"
    /\ i < Len(inputChunks)
    /\ ~IsBlank(TextToEmbed(CurrentChunk))
    /\ ThrowsBeforeFetch(providerConfig)
    /\ CatchFailure
    /\ i' = i + 1
    /\ UNCHANGED <<inputChunks, providerName, calls, responses, epc,
                   chunkVars, sizeVars, wbVars>>
    /\ UNCHANGED restVars

\* embeddingService.ts:153-180 and 48-60: the answer arrives, getEmbedding
\* resolves or throws, the loop pushes the vector or the placeholder
PushAnswerFrom(answers) ==
    /\ \E r \in answers :
          /\ responses' = Append(responses, [index |-> i, response |-> r])
          /\ LET res == HandleResponse(r)
             IN  IF res.threw
                 THEN CatchFailure
                 ELSE /\ embeddings' = Append(embeddings, res.value)
                      /\ errors' = errors
    /\ i' = i + 1
    /\ epc' = "loop"
    /\ UNCHANGED <<inputChunks, providerName, calls, chunkVars, sizeVars, wbVars>>
    /\ UNCHANGED restVars

\* embeddingService.ts:48: the awaited getEmbedding call settles
ProviderAnswers ==
    /\ epc = "await"
    /\ PushAnswerFrom(Responses)

\* embeddingService.ts:37 (condition false) and 63-73
GenerateEmbeddingsReturn ==
    /\ epc = "loop"
    /\ ~(i < Len(inputChunks))
    /\ epc' = "returned"
    /\ UNCHANGED <<inputChunks, providerName, i, embeddings, errors, calls,
                   responses, chunkVars, sizeVars, wbVars>>
    /\ UNCHANGED restVars

NextEmbed ==
    \/ GenerateEmbeddingsEnter
    \/ SkipEmptyChunk
    \/ SendRequest
    \/ FailBeforeFetch
    \/ ProviderAnswers
    \/ GenerateEmbeddingsReturn

SpecEmbed == InitEmbed /\ [][NextEmbed]_vars

\* -------------------------------------------------- getEmbedding as a call
InitGetEmbedding ==
    /\ gParam \in ProviderParams
    /\ urlMarkers \in SUBSET Markers
    /\ gRequest = NoRequest
    /\ gAnswer = NoAnswer
    /\ gResult = NoResult
    /\ gpc = "call"
    /\ chunkSize = defaultChunkSize
    /\ overlapSize = defaultOverlapSize
    /\ ChunkIdle
    /\ WorldBookIdle
    /\ EmbedIdle
    /\ IngestIdle
    /\ SearchIdle
    /\ ConfigIdle
    /\ ErrorIdle
    /\ MaintenanceIdle

\* embeddingService.ts:85-157: resolve the provider, build the request and
\* send it, or throw before anything is sent
GetEmbeddingEnter ==
    /\ gpc = "call"
    /\ LET config == ResolveParam(gParam)
       IN  IF gParam.byName /\ ProviderNotFound(config)
           THEN /\ gResult' = [threw |-> TRUE, value |-> Undefined, error |-> "UnknownProvider"]
                /\ gpc' = "thrown"
                /\ gRequest' = gRequest
           ELSE IF ThrowsBeforeFetch(config)
           THEN /\ gResult' = [threw |-> TRUE, value |-> Undefined, error |-> "TypeError"]
                /\ gpc' = "thrown"
                /\ gRequest' = gRequest
           ELSE /\ gRequest' = [sent |-> TRUE, field |-> PayloadField(urlMarkers)]
                /\ gpc' = "await"
                /\ gResult' = gResult
    /\ UNCHANGED <<gParam, urlMarkers, gAnswer>>
    /\ UNCHANGED <<chunkVars, sizeVars, wbVars, embedVars, ingestVars, searchVars>>
    /\ UNCHANGED <<configVars, errorVars, maintVars>>

\* embeddingService.ts:153-180: what getEmbedding does with the answer
SettleFrom(answers) ==
    /\ \E r \in answers :
          /\ gAnswer' = r
          /\ LET res == HandleResponse(r)
             IN  /\ gResult' = [threw |-> res.threw, value |-> res.value,
                                error |-> IF res.threw THEN ErrorKind(r) ELSE "none"]
                 /\ gpc' = IF res.threw THEN "thrown" ELSE "returned"
    /\ UNCHANGED <<gParam, urlMarkers, gRequest>>
    /\ UNCHANGED <<chunkVars, sizeVars, wbVars, embedVars, ingestVars, searchVars>>
    /\ UNCHANGED <<configVars, errorVars, maintVars>>

\* embeddingService.ts:153-180: the answer arrives
GetEmbeddingAnswer ==
    /\ gpc = "await"
    /\ SettleFrom(Responses)

NextGetEmbedding == GetEmbeddingEnter \/ GetEmbeddingAnswer

SpecGetEmbedding == InitGetEmbedding /\ [][NextGetEmbedding]_vars

\* ------------------------------------------- POST /vectorize-and-store
InitIngest ==
    /\ hasEntries \in BOOLEAN
    /\ worldBook \in IngestBooks
    /\ hasEntries \/ worldBook = << >>
    /\ chunkSize \in IngestChunkSizes
    /\ overlapSize \in IngestOverlapSizes
    /\ providerName \in ProviderNames
    /\ processedEntries = << >>
    /\ wpc = "idle"
    /\ inputChunks = << >>
    /\ i = 0
    /\ embeddings = << >>
    /\ errors = << >>
    /\ calls = << >>
    /\ responses = << >>
    /\ epc = "idle"
    /\ createCalls = << >>
    /\ upsertCalls = << >>
    /\ ingestResponse = NoResponse
    /\ ipc = "call"
    /\ ErrorIdle
    /\ ChunkIdle
    /\ GetIdle
    /\ SearchIdle
    /\ ConfigIdle
    /\ MaintenanceIdle

\* index.ts:78-102: validate, chunk the world book, call generateEmbeddings
IngestEnter ==
    /\ ipc = "call"
    /\ IF ~hasEntries
       THEN /\ ingestResponse' = ErrorResponse(400)
            /\ ipc' = "done"
            /\ UNCHANGED <<processedEntries, wpc, inputChunks, epc, caught>>
       ELSE LET r == processWorldBook(worldBook, chunkSize, overlapSize)
            IN  IF r.thrown
                THEN /\ ingestResponse' = ErrorResponse(500)
                     /\ caught' = Thrown("processWorldBook")
                     /\ ipc' = "done"
                     /\ wpc' = "thrown"
                     /\ UNCHANGED <<processedEntries, inputChunks, epc>>
                ELSE /\ processedEntries' = r.out
                     /\ wpc' = "returned"
                     /\ inputChunks' = r.out
                     /\ epc' = "call"
                     /\ ipc' = "embed"
                     /\ UNCHANGED <<ingestResponse, caught>>
    /\ UNCHANGED <<worldBook, providerName, i, embeddings, errors, calls, responses>>
    /\ UNCHANGED <<hasEntries, createCalls, upsertCalls, storeLog>>
    /\ UNCHANGED <<chunkVars, sizeVars, getVars, searchVars, configVars, maintVars>>

\* the provider's answer to one request of the ingestion
IngestProviderAnswers ==
    /\ epc = "await"
    /\ PushAnswerFrom(IngestResponses)

\* index.ts:102 and 166-169: generateEmbeddings threw
IngestEmbedFailed ==
    /\ ipc = "embed"
    /\ epc = "thrown"
    /\ ingestResponse' = ErrorResponse(500)
    /\ caught' = Thrown("generateEmbeddings")
    /\ ipc' = "done"
    /\ UNCHANGED <<hasEntries, createCalls, upsertCalls, storeLog>>
    /\ UNCHANGED <<chunkVars, sizeVars, wbVars, embedVars, getVars, searchVars>>
    /\ UNCHANGED <<configVars, maintVars>>

\* index.ts:102-124: generateEmbeddings returned, createCollection is called
IngestCreateCollection ==
    /\ ipc = "embed"
    /\ epc = "returned"
    /\ createCalls' = Append(createCalls, [vectorDimension |-> vectorDimension])
    /\ ipc' = "create"
    /\ UNCHANGED <<hasEntries, upsertCalls, ingestResponse, caught, storeLog>>
    /\ UNCHANGED <<chunkVars, sizeVars, wbVars, embedVars, getVars, searchVars>>
    /\ UNCHANGED <<configVars, maintVars>>

\* index.ts:159-164
IngestSuccess(cwes, points) ==
    [status |-> 200, chunksProcessed |-> Len(cwes), pointsStored |-> Len(points)]

\* index.ts:120-155: createCollection settles; on success the points are
\* built and, when there are any, upsert is called
IngestCreateSettles ==
    /\ ipc = "create"
    /\ \E reply \in StoreReplies :
          /\ storeLog' = Append(storeLog, StoreAnswered("createCollection", reply))
          /\ IF StoreCallThrows(reply)
             THEN /\ ingestResponse' = ErrorResponse(500)
                  /\ caught' = StoreError("createCollection", reply)
                  /\ ipc' = "done"
                  /\ UNCHANGED upsertCalls
             ELSE LET cwes == ChunksWithEmbeddings(processedEntries, embeddings)
                      points == PointsToUpsert(cwes)
                  IN  IF Len(points) > 0
                      THEN /\ upsertCalls' = Append(upsertCalls, points)
                           /\ ipc' = "upsert"
                           /\ UNCHANGED <<ingestResponse, caught>>
                      ELSE /\ ingestResponse' = IngestSuccess(cwes, points)
                           /\ ipc' = "done"
                           /\ UNCHANGED <<upsertCalls, caught>>
    /\ UNCHANGED <<hasEntries, createCalls>>
    /\ UNCHANGED <<chunkVars, sizeVars, wbVars, embedVars, getVars, searchVars>>
    /\ UNCHANGED <<configVars, maintVars>>

\* index.ts:150-164: upsert settles
IngestUpsertSettles ==
    /\ ipc = "upsert"
    /\ \E reply \in StoreReplies :
          /\ storeLog' = Append(storeLog, StoreAnswered("upsert", reply))
          /\ IF StoreCallThrows(reply)
             THEN /\ ingestResponse' = ErrorResponse(500)
                  /\ caught' = StoreError("upsert", reply)
             ELSE /\ LET cwes == ChunksWithEmbeddings(processedEntries, embeddings)
                     IN  ingestResponse' = IngestSuccess(cwes, PointsToUpsert(cwes))
                  /\ UNCHANGED caught
    /\ ipc' = "done"
    /\ UNCHANGED <<hasEntries, createCalls, upsertCalls>>
    /\ UNCHANGED <<chunkVars, sizeVars, wbVars, embedVars, getVars, searchVars>>
    /\ UNCHANGED <<configVars, maintVars>>

NextIngest ==
    \/ IngestEnter
    \/ GenerateEmbeddingsEnter
    \/ SkipEmptyChunk
    \/ SendRequest
    \/ FailBeforeFetch
    \/ IngestProviderAnswers
    \/ GenerateEmbeddingsReturn
    \/ IngestEmbedFailed
    \/ IngestCreateCollection
    \/ IngestCreateSettles
    \/ IngestUpsertSettles

SpecIngest == InitIngest /\ [][NextIngest]_vars

\* ----------------------------------------------------------- POST /search
InitSearch ==
    /\ query \in Queries
    /\ currentConfig \in Configs
    /\ gParam = ConfigObject
    /\ urlMarkers = {"localhost:8008"}
    /\ gRequest = NoRequest
    /\ gAnswer = NoAnswer
    /\ gResult = NoResult
    /\ gpc = "idle"
    /\ searchCalls = << >>
    /\ candidates = << >>
    /\ rerankCalls = << >>
    /\ rerankAnswer = NoRerankAnswer
    /\ searchResponse = NoSearchResponse
    /\ spc = "call"
    /\ ErrorIdle
    /\ chunkSize = defaultChunkSize
    /\ overlapSize = defaultOverlapSize
    /\ ChunkIdle
    /\ WorldBookIdle
    /\ EmbedIdle
    /\ IngestIdle
    /\ MaintenanceIdle

\* index.ts:173-186: validate the body, call getEmbedding with the default
\* provider of the current configuration
SearchEnter ==
    /\ spc = "call"
    /\ IF ~query.valid
       THEN /\ searchResponse' = SearchError(400)
            /\ spc' = "done"
            /\ UNCHANGED <<gpc, gParam>>
       ELSE /\ gParam' = [byName |-> TRUE, name |-> currentConfig.defaultProvider]
            /\ gpc' = "call"
            /\ spc' = "embed"
            /\ UNCHANGED searchResponse
    /\ UNCHANGED <<urlMarkers, gRequest, gAnswer, gResult>>
    /\ UNCHANGED <<query, searchCalls, candidates, rerankCalls, rerankAnswer>>
    /\ UNCHANGED <<chunkVars, sizeVars, wbVars, embedVars, ingestVars>>
    /\ UNCHANGED <<configVars, errorVars, maintVars>>

\* the provider's answer to the query's embedding request
SearchEmbedAnswer ==
    /\ gpc = "await"
    /\ SettleFrom(QueryEmbedResponses)

\* index.ts:186 and 235-238: getEmbedding threw
SearchEmbedFailed ==
    /\ spc = "embed"
    /\ gpc = "thrown"
    /\ searchResponse' = SearchError(500)
    /\ caught' = Thrown("getEmbedding")
    /\ spc' = "done"
    /\ UNCHANGED <<query, searchCalls, candidates, rerankCalls, rerankAnswer, storeLog>>
    /\ UNCHANGED <<chunkVars, sizeVars, wbVars, embedVars, getVars, ingestVars>>
    /\ UNCHANGED <<configVars, maintVars>>

\* index.ts:186-194: getEmbedding returned, the store is searched
SearchStore ==
    /\ spc = "embed"
    /\ gpc = "returned"
    /\ searchCalls' = Append(searchCalls, [queryVector |-> gResult.value,
                                           limit |-> SearchLimit(query.limit)])
    /\ spc' = "search"
    /\ UNCHANGED <<query, candidates, rerankCalls, rerankAnswer, searchResponse>>
    /\ UNCHANGED <<chunkVars, sizeVars, wbVars, embedVars, getVars, ingestVars>>
    /\ UNCHANGED <<configVars, errorVars, maintVars>>

\* index.ts:190-213 and 227-232: the search settles; the handler answers, or
\* calls the reranker when asked to and a candidate has a document.  The
\* reranker's provider is read from the current configuration at this point
\* (index.ts:210); rerank throws before its fetch when that is no profile
\* (vectorDbService.ts:276-282).
SearchStoreSettles ==
    /\ spc = "search"
    /\ \E answer \in StoreAnswers :
          /\ storeLog' = Append(storeLog, StoreAnswered("search", answer))
          /\ IF StoreCallThrows(answer)
             THEN /\ searchResponse' = SearchError(500)
                  /\ caught' = StoreError("search", answer)
                  /\ spc' = "done"
                  /\ UNCHANGED <<candidates, rerankCalls>>
             ELSE /\ candidates' = answer.results
                  /\ LET documentsToRerank == DocumentsToRerank(answer.results)
                         rerankProviderConfig == RerankProvider(currentConfig)
                     IN  IF query.rerank /\ Len(answer.results) > 0
                            /\ Len(documentsToRerank) > 0
                         THEN IF ThrowsBeforeFetch(rerankProviderConfig)
                              THEN /\ searchResponse' = SearchError(500)
                                   /\ caught' = Thrown("rerank")
                                   /\ spc' = "done"
                                   /\ UNCHANGED rerankCalls
                              ELSE /\ rerankCalls' = Append(rerankCalls,
                                          [documents |-> documentsToRerank,
                                           topN |-> query.limit,
                                           provider |-> rerankProviderConfig.name])
                                   /\ spc' = "rerank"
                                   /\ UNCHANGED <<searchResponse, caught>>
                         ELSE /\ searchResponse' = SearchSuccess(answer.results, query.limit)
                              /\ spc' = "done"
                              /\ UNCHANGED <<rerankCalls, caught>>
    /\ UNCHANGED <<query, searchCalls, rerankAnswer>>
    /\ UNCHANGED <<chunkVars, sizeVars, wbVars, embedVars, getVars, ingestVars>>
    /\ UNCHANGED <<configVars, maintVars>>

\* index.ts:213-232: the rerank call settles
RerankSettles ==
    /\ spc = "rerank"
    /\ \E answer \in RerankAnswers(Len(rerankCalls[Len(rerankCalls)].documents)) :
          /\ rerankAnswer' = answer
          /\ searchResponse' =
                 IF answer.kind # "ok"
                 THEN OnRerankError(candidates, query.limit)
                 ELSE SearchSuccess(Reranked(candidates, answer.results), query.limit)
          /\ caught' = IF answer.kind # "ok" THEN Thrown("rerank") ELSE caught
    /\ spc' = "done"
    /\ UNCHANGED <<query, searchCalls, candidates, rerankCalls, storeLog>>
    /\ UNCHANGED <<chunkVars, sizeVars, wbVars, embedVars, getVars, ingestVars>>
    /\ UNCHANGED <<configVars, maintVars>>

NextSearch ==
    \/ SearchEnter
    \/ GetEmbeddingEnter
    \/ SearchEmbedAnswer
    \/ SearchEmbedFailed
    \/ SearchStore
    \/ SearchStoreSettles
    \/ RerankSettles

SpecSearch == InitSearch /\ [][NextSearch]_vars

\* ------------------------------ POST /delete-records, /delete-collection
InitMaintenance ==
    /\ maintenance \in MaintenanceRequests
    /\ deleteCalls = << >>
    /\ maintenanceResponse = 0
    /\ mpc = "call"
    /\ chunkSize = defaultChunkSize
    /\ overlapSize = defaultOverlapSize
    /\ ChunkIdle
    /\ WorldBookIdle
    /\ EmbedIdle
    /\ GetIdle
    /\ IngestIdle
    /\ SearchIdle
    /\ ConfigIdle
    /\ ErrorIdle

\* index.ts:244-257: validate the body, call deleteRecords
DeleteRecordsEnter ==
    /\ mpc = "call"
    /\ maintenance.kind = "records"
    /\ IF ~maintenance.valid
       THEN /\ maintenanceResponse' = 400
            /\ mpc' = "done"
            /\ UNCHANGED deleteCalls
       ELSE /\ deleteCalls' = Append(deleteCalls, "deleteRecords")
            /\ mpc' = "await"
            /\ UNCHANGED maintenanceResponse
    /\ UNCHANGED <<maintenance, chunkVars, sizeVars, wbVars, embedVars>>
    /\ UNCHANGED <<getVars, ingestVars, searchVars, configVars, errorVars>>

\* index.ts:254-266: deleteRecords settles
DeleteRecordsSettles ==
    /\ mpc = "await"
    /\ maintenance.kind = "records"
    /\ \E reply \in StoreReplies :
          /\ storeLog' = Append(storeLog, StoreAnswered("deleteRecords", reply))
          /\ IF StoreCallThrows(reply)
             THEN /\ maintenanceResponse' = 500
                  /\ caught' = StoreError("deleteRecords", reply)
             ELSE /\ maintenanceResponse' = 200
                  /\ UNCHANGED caught
    /\ mpc' = "done"
    /\ UNCHANGED <<maintenance, deleteCalls, chunkVars, sizeVars, wbVars, embedVars>>
    /\ UNCHANGED <<getVars, ingestVars, searchVars, configVars>>

\* index.ts:270-282: validate the body, call deleteCollection
DeleteCollectionEnter ==
    /\ mpc = "call"
    /\ maintenance.kind = "collection"
    /\ IF ~maintenance.valid
       THEN /\ maintenanceResponse' = 400
            /\ mpc' = "done"
            /\ UNCHANGED deleteCalls
       ELSE /\ deleteCalls' = Append(deleteCalls, "deleteCollection")
            /\ mpc' = "await"
            /\ UNCHANGED maintenanceResponse
    /\ UNCHANGED <<maintenance, chunkVars, sizeVars, wbVars, embedVars>>
    /\ UNCHANGED <<getVars, ingestVars, searchVars, configVars, errorVars>>

\* index.ts:279-291: deleteCollection settles
DeleteCollectionSettles ==
    /\ mpc = "await"
    /\ maintenance.kind = "collection"
    /\ \E reply \in StoreReplies :
          /\ storeLog' = Append(storeLog, StoreAnswered("deleteCollection", reply))
          /\ IF StoreCallThrows(reply)
             THEN /\ maintenanceResponse' = 500
                  /\ caught' = StoreError("deleteCollection", reply)
             ELSE /\ maintenanceResponse' = 200
                  /\ UNCHANGED caught
    /\ mpc' = "done"
    /\ UNCHANGED <<maintenance, deleteCalls, chunkVars, sizeVars, wbVars, embedVars>>
    /\ UNCHANGED <<getVars, ingestVars, searchVars, configVars>>

NextMaintenance ==
    \/ DeleteRecordsEnter
    \/ DeleteRecordsSettles
    \/ DeleteCollectionEnter
    \/ DeleteCollectionSettles

\* ------------------------------------------------ one request to the plugin
\* One request of any of the four endpoints that use the vector store
InitRequest == InitIngest \/ InitSearch \/ InitMaintenance

NextRequest == NextIngest \/ NextSearch \/ NextMaintenance

SpecRequest == InitRequest /\ [][NextRequest]_vars

\* ------------------------------------------ POST /config during a query
\* index.ts:60-75: saveConfig writes the file synchronously, so the handler
\* runs to its end in one step; it replaces the module's configuration
PostConfig ==
    /\ \E newConfig \in Configs : currentConfig' = newConfig
    /\ UNCHANGED <<chunkVars, sizeVars, wbVars, embedVars>>
    /\ UNCHANGED <<getVars, ingestVars, searchVars, errorVars, maintVars>>

NextSearchConfig == NextSearch \/ PostConfig

SpecSearchConfig == InitSearch /\ [][NextSearchConfig]_vars

\* ------------------------------------------------------- claims on chunkText
Returned == pc = "returned"

\* t[a : b] of the specification's notation (0-based, end exclusive)
Slice(t, a, b) ==
    IF 0 <= a /\ a < b /\ b <= Len(t) THEN SubSeq(t, a + 1, b) ELSE << >>

\* a chunk without its first n characters (nothing is removed for n <= 0)
DropPrefix(s, n) ==
    IF n <= 0 THEN s ELSE IF n >= Len(s) THEN << >> ELSE SubSeq(s, n + 1, Len(s))

RECURSIVE Reassemble(_, _)
Reassemble(cs, n) ==
    IF cs = << >> THEN << >>
    ELSE IF Len(cs) = 1 THEN cs[1]
    ELSE Reassemble(SubSeq(cs, 1, Len(cs) - 1), n) \o DropPrefix(cs[Len(cs)], n)

\* C1 as stated: for every windowSize > overlapSize the first chunk followed
\* by the later chunks without their first overlapSize characters is the text.
C1_AnySizes ==
    (Returned /\ chunkSize > overlapSize)
        => Reassemble(chunks, overlapSize) = text

\* C1 (amended): for every text and every 0 <= overlapSize < windowSize, the
\* first chunk followed by every later chunk without its first overlapSize
\* characters, in emission order, is exactly the text.
C1_Reassembles ==
    (Returned /\ chunkSize > overlapSize /\ overlapSize >= 0)
        => Reassemble(chunks, overlapSize) = text

C1_Witness ==
    /\ Returned
    /\ overlapSize >= 1
    /\ Len(chunks) >= 3
    /\ Reassemble(chunks, overlapSize) = text

\* C2: a call with windowSize <= overlapSize throws for every text (the
\* empty one included), emits no chunk and never enters the loop with
\* adjusted sizes.
C2_InvalidSizesThrow ==
    (chunkSize <= overlapSize)
        => /\ pc \in {"call", "thrown"}
           /\ chunks = << >>

C2_Witness ==
    /\ pc = "thrown"
    /\ text = << >>
    /\ chunkSize = overlapSize

\* C3: for windowSize > overlapSize the call terminates: every iteration
\* that stays in the loop strictly increases the cursor, the loop is left
\* exactly when the window reaches len(T) or the cursor is not below len(T).
C3_Terminates ==
    /\ <>(pc \in {"returned", "thrown"})
    /\ [][(pc = "loop" /\ chunkSize > overlapSize)
            => /\ (pc' = "loop" => start' > start)
               /\ (pc' = "returned")
                    <=> (\/ ~(start < Len(text))
                         \/ WindowEnd(text, start, chunkSize) = Len(text))]_vars

C3_Witness ==
    /\ Returned
    /\ start >= 3
    /\ Len(chunks) >= 2
    /\ Stride(chunkSize, overlapSize) = 1

ChunkEnd(k) == Min((k - 1) * Stride(chunkSize, overlapSize) + chunkSize, Len(text))

KthChunks ==
    /\ \A k \in 1..Len(chunks) :
          chunks[k] = Slice(text, (k - 1) * Stride(chunkSize, overlapSize), ChunkEnd(k))
    /\ (text = << >>) => (chunks = << >>)
    /\ (text # << >>) =>
          /\ chunks # << >>
          /\ ChunkEnd(Len(chunks)) = Len(text)
          /\ \A k \in 1..(Len(chunks) - 1) : ChunkEnd(k) < Len(text)

Examples ==
    /\ (text = HelloWorld /\ chunkSize = 5 /\ overlapSize = 0)
          => chunks = << <<"h", "e", "l", "l", "o">>,
                         <<" ", "w", "o", "r", "l">>,
                         <<"d">> >>
    /\ (text = Abcdefgh /\ chunkSize = 4 /\ overlapSize = 2)
          => chunks = << <<"a", "b", "c", "d">>,
                         <<"c", "d", "e", "f">>,
                         <<"e", "f", "g", "h">> >>

\* C4 as stated: for every windowSize > overlapSize the k-th chunk is
\* T[k*stride : min(k*stride + windowSize, len(T))] and the sequence ends with
\* the first chunk whose end is len(T).
C4_AnySizes ==
    (Returned /\ chunkSize > overlapSize) => (KthChunks /\ Examples)

\* C4 (amended): for every text and every 0 <= overlapSize < windowSize the
\* k-th chunk (from 0) is T[k*stride : min(k*stride + windowSize, len(T))],
\* the sequence ends with the first chunk whose end is len(T), and the two
\* worked examples give ["hello"," worl","d"] and ["abcd","cdef","efgh"].
C4_KthChunk ==
    (Returned /\ chunkSize > overlapSize /\ overlapSize >= 0)
        => (KthChunks /\ Examples)

C4_Witness ==
    /\ Returned
    /\ text = Abcdefgh
    /\ chunkSize = 4
    /\ overlapSize = 2
    /\ Len(chunks) = 3

LastChunkEndsAtLen ==
    /\ chunks # << >>
    /\ start < Len(text)
    /\ chunks[Len(chunks)] = SubSeq(text, start + 1, Len(text))

\* C5 as stated: for every non-empty text and windowSize > overlapSize the
\* last chunk ends at len(T).
C5_AnySizes ==
    (Returned /\ chunkSize > overlapSize /\ text # << >>) => LastChunkEndsAtLen

\* C5 (amended): for every non-empty text and every 0 <= overlapSize <
\* windowSize the last chunk returned is the suffix of the text that starts
\* at the final cursor, so it ends at position len(T).
C5_LastChunkSuffix ==
    (Returned /\ chunkSize > overlapSize /\ overlapSize >= 0 /\ text # << >>)
        => LastChunkEndsAtLen

C5_Witness ==
    /\ Returned
    /\ Len(chunks) >= 2
    /\ Len(chunks[Len(chunks)]) < chunkSize
    /\ LastChunkEndsAtLen

ChunkLengthsOk ==
    /\ \A k \in 1..Len(chunks) :
          Len(chunks[k]) >= 1 /\ Len(chunks[k]) <= chunkSize
    /\ (text = << >> /\ pc # "call") => chunks = << >>

EmittedCount(u, type) ==
    Cardinality({k \in 1..Len(processedEntries) :
                    processedEntries[k].uid = u /\ processedEntries[k].chunkType = type})

FieldOf(entry, type) == IF type = "content" THEN entry.content ELSE entry.comment

\* the chunks chunkText returns for the fields `type` of the first k entries
\* that have uid u
RECURSIVE WindowCount(_, _, _)
WindowCount(k, u, type) ==
    IF k = 0 THEN 0
    ELSE WindowCount(k - 1, u, type)
         + (IF worldBook[k].uid = u
            THEN Len(chunkText(FieldOf(worldBook[k], type), chunkSize, overlapSize).chunks)
            ELSE 0)

AllEntriesEmpty ==
    \A k \in 1..Len(worldBook) :
        worldBook[k].content = << >> /\ worldBook[k].comment = << >>

\* C7: when processWorldBook returns, the chunks tagged 'content' (resp.
\* 'comment') it emitted for an entry uid are exactly as many as chunkText
\* returns for that entry's content (resp. comment); entries with both fields
\* empty give no chunk and no error; content "X" with an empty comment gives
\* one content chunk and no comment chunk.
C7_PerFieldCounts ==
    /\ (wpc = "returned") =>
          /\ \A u \in Uids : \A type \in {"content", "comment"} :
                EmittedCount(u, type) = WindowCount(Len(worldBook), u, type)
          /\ \A u \in Uids :
                (worldBook = <<[uid |-> u, content |-> <<"X">>, comment |-> << >>]>>)
                    => /\ EmittedCount(u, "content") = 1
                       /\ EmittedCount(u, "comment") = 0
    /\ (wpc \in {"returned", "thrown"} /\ AllEntriesEmpty) =>
          /\ wpc = "returned"
          /\ processedEntries = << >>

C7_Witness ==
    /\ wpc = "returned"
    /\ Len(worldBook) = 2
    /\ worldBook[1].content = << >> /\ worldBook[1].comment = << >>
    /\ worldBook[2].uid # worldBook[1].uid
    /\ EmittedCount(worldBook[2].uid, "content") >= 2
    /\ EmittedCount(worldBook[2].uid, "comment") >= 2
    /\ EmittedCount(worldBook[1].uid, "content") = 0

Windows(t) ==
    LET r == chunkText(t, chunkSize, overlapSize).chunks
    IN  {r[k] : k \in 1..Len(r)}

\* C8: every chunk tagged 'content' carries one window of its entry's content
\* and the entry's whole comment; every chunk tagged 'comment' carries one
\* window of the entry's comment and an empty content; both carry the
\* entry's uid.
C8_ChunkPayload ==
    (wpc = "returned") =>
        \A k \in 1..Len(processedEntries) :
            LET c == processedEntries[k]
            IN  \E n \in 1..Len(worldBook) :
                    LET e == worldBook[n]
                    IN  /\ c.uid = e.uid
                        /\ (c.chunkType = "content") =>
                              /\ c.content \in Windows(e.content)
                              /\ c.comment = e.comment
                        /\ (c.chunkType = "comment") =>
                              /\ c.comment \in Windows(e.comment)
                              /\ c.content = << >>

C8_Witness ==
    /\ wpc = "returned"
    /\ Len(worldBook) = 1
    /\ \E k \in 1..Len(processedEntries) :
          /\ processedEntries[k].chunkType = "content"
          /\ processedEntries[k].comment = <<"a", "b">>
          /\ Len(processedEntries[k].content) < Len(worldBook[1].content)
    /\ \E k \in 1..Len(processedEntries) :
          /\ processedEntries[k].chunkType = "comment"
          /\ processedEntries[k].comment = <<"b">>

\* ---------------------------------------------- claims on generateEmbeddings
KnownProvider == providerName \in RegistryKeys

\* trim(comment + ' ' + content)
DocumentString(chunk) == Trim(chunk.comment \o <<" ">> \o chunk.content)

\* the answer the provider gave to the request for chunk k (0-based)
AnswerFor(k) ==
    LET n == CHOOSE n \in 1..Len(responses) : responses[n].index = k
    IN  responses[n].response

\* a successful response in one of the two accepted shapes
HasDataVector(r) ==
    /\ r.body.data.tag = "array"
    /\ Len(r.body.data.items) > 0
    /\ r.body.data.items[1].embedding.tag = "array"

ProviderSucceeded(r) ==
    /\ r.kind = "http" /\ r.ok /\ ~r.body.error
    /\ HasDataVector(r) \/ r.body.embedding.tag = "array"

ReturnedVector(r) ==
    IF HasDataVector(r) THEN r.body.data.items[1].embedding ELSE r.body.embedding

\* C9: with a known provider the result has one element per input chunk, in
\* input order: the vector the provider returned when the call for chunk i
\* succeeded, the empty vector when it failed or the chunk's text is blank.
C9_OrderPreserved ==
    (KnownProvider /\ epc = "returned") =>
        /\ Len(embeddings) = Len(inputChunks)
        /\ \A k \in 1..Len(inputChunks) :
              IF DocumentString(inputChunks[k]) = << >>
              THEN embeddings[k] = EmptyVector
              ELSE IF ProviderSucceeded(AnswerFor(k - 1))
                   THEN embeddings[k] = ReturnedVector(AnswerFor(k - 1))
                   ELSE embeddings[k] = EmptyVector

\* the 0-based indices of the first n chunks whose document string is not
\* empty, in input order
RECURSIVE NonBlankIndices(_)
NonBlankIndices(n) ==
    IF n = 0 THEN << >>
    ELSE IF DocumentString(inputChunks[n]) = << >>
         THEN NonBlankIndices(n - 1)
         ELSE Append(NonBlankIndices(n - 1), n - 1)

\* C10: with a known provider no provider failure aborts the batch; the
\* requests sent are, in input order and once each, those of the chunks with
\* a non-empty document string; a request is sent only when every earlier one
\* has been answered; a blank chunk is never sent.
C10_SequentialIsolated ==
    KnownProvider =>
        /\ epc # "thrown"
        /\ LET seen == IF epc = "await" THEN i + 1 ELSE i
               sent == NonBlankIndices(seen)
           IN  /\ Len(calls) = Len(sent)
               /\ \A n \in 1..Len(calls) :
                     /\ calls[n].index = sent[n]
                     /\ calls[n].text = DocumentString(inputChunks[sent[n] + 1])
        /\ Len(responses) = (IF epc = "await" THEN Len(calls) - 1 ELSE Len(calls))
        /\ Len(embeddings) = i
        /\ (epc = "returned") => (i = Len(inputChunks))

C10_Witness ==
    /\ KnownProvider
    /\ epc = "returned"
    /\ Len(inputChunks) = 3
    /\ errors = <<1>>
    /\ Len(calls) = 2
    /\ calls[2].index = 2
    /\ embeddings[2] = EmptyVector
    /\ embeddings[3] # EmptyVector

\* --------------------------------------------- claims on provider dispatch
\* C11: generateEmbeddings called with a provider name that is not a key of
\* the provider registry fails before any request is sent and returns no
\* partial result: once past the lookup the call has thrown, no request was
\* sent and no embedding was produced.
C11_UnknownProviderFails ==
    (providerName \notin RegistryKeys /\ epc # "call") =>
        /\ epc = "thrown"
        /\ calls = << >>
        /\ embeddings = << >>

RequestSent == gRequest.sent

\* C12 as stated: the text field is prompt for an Ollama URL, input for an
\* OpenAI URL, content for a llama.cpp URL and text for any other URL.
C12_ThreeSubstrings ==
    RequestSent =>
        gRequest.field =
            IF "ollama" \in urlMarkers THEN "prompt"
            ELSE IF "openai" \in urlMarkers THEN "input"
            ELSE IF "llamacpp" \in urlMarkers THEN "content"
            ELSE "text"

\* C12: the text field of a request depends on the URL alone, tested in this
\* order: prompt when the URL contains "ollama"; otherwise input when it
\* contains "openai"; otherwise content when it contains "llamacpp" or
\* "localhost:8008"; text when it contains none of the four.
C12_PayloadFieldByUrl ==
    RequestSent =>
        /\ ("ollama" \in urlMarkers) => gRequest.field = "prompt"
        /\ (urlMarkers \cap {"ollama"} = {} /\ "openai" \in urlMarkers)
              => gRequest.field = "input"
        /\ (urlMarkers \cap {"ollama", "openai"} = {}
              /\ urlMarkers \cap {"llamacpp", "localhost:8008"} # {})
              => gRequest.field = "content"
        /\ (urlMarkers = {}) => gRequest.field = "text"

C12_Witness ==
    /\ RequestSent
    /\ urlMarkers = {"localhost:8008"}
    /\ gRequest.field = "content"

\* C13: getEmbedding returns only for a successful response in one of the
\* two accepted shapes, and then returns a vector; a response with an error
\* field fails with ProviderReportedError; a successful response of any other
\* shape fails with UnexpectedResponseFormat.
C13_ResponseShapes ==
    (gpc \in {"returned", "thrown"} /\ RequestSent /\ gAnswer.kind = "http" /\ gAnswer.ok) =>
        IF gAnswer.body.error
        THEN gResult.threw /\ gResult.error = "ProviderReportedError"
        ELSE IF ProviderSucceeded(gAnswer)
             THEN ~gResult.threw /\ gResult.value.tag = "array"
             ELSE gResult.threw /\ gResult.error = "UnexpectedResponseFormat"

\* ------------------------------------------------ claims on the ingestion
\* C14: every vector of a point sent to upsert has the length the collection
\* was created with.
C14_VectorDimension ==
    \A c \in 1..Len(upsertCalls) :
        \A p \in 1..Len(upsertCalls[c]) :
            Len(upsertCalls[c][p].vector.items) = createCalls[1].vectorDimension

NonEmptyEmbedding(k) ==
    embeddings[k].tag = "array" /\ embeddings[k].items # << >>

\* the positions (1-based) of the chunks with a non-empty embedding, in
\* chunk order
StoredPositions ==
    SelectSeq([k \in 1..Len(embeddings) |-> k], LAMBDA k : NonEmptyEmbedding(k))

\* C15: upsert is called at most once and never with a point whose vector is
\* empty or missing; its points are the chunks with a non-empty embedding, in
\* chunk order; a success response reports the number of chunks as
\* chunksProcessed and the number of non-empty embeddings as pointsStored,
\* which is at most chunksProcessed.
C15_OnlyEmbeddedChunksStored ==
    /\ Len(upsertCalls) <= 1
    /\ \A c \in 1..Len(upsertCalls) :
          LET points == upsertCalls[c]
          IN  /\ Len(points) = Len(StoredPositions)
              /\ Len(points) > 0
              /\ \A p \in 1..Len(points) :
                    LET k == StoredPositions[p]
                    IN  /\ points[p].vector = embeddings[k]
                        /\ points[p].vector.tag = "array"
                        /\ Len(points[p].vector.items) > 0
                        /\ points[p].id = PointId(processedEntries[k].uid, k - 1)
                        /\ points[p].payload.comment = processedEntries[k].comment
                        /\ points[p].payload.content = processedEntries[k].content
                        /\ points[p].payload.chunkType = processedEntries[k].chunkType
    /\ (ipc = "done" /\ ingestResponse.status = 200) =>
          /\ ingestResponse.chunksProcessed = Len(processedEntries)
          /\ ingestResponse.pointsStored = Len(StoredPositions)
          /\ ingestResponse.pointsStored <= ingestResponse.chunksProcessed
          /\ (Len(StoredPositions) > 0) => (Len(upsertCalls) = 1)

C15_Witness ==
    /\ ipc = "done"
    /\ ingestResponse = [status |-> 200, chunksProcessed |-> 3, pointsStored |-> 1]
    /\ Len(upsertCalls) = 1
    /\ \E k \in 1..3 : embeddings[k] = Undefined
    /\ \E k \in 1..3 : embeddings[k] = EmptyVector

\* C27: the id of a point is determined by the uid of its chunk's entry and
\* the chunk's index in the list of processed chunks (uid, "_", index, in
\* decimal); the ids of the points of one upsert are pairwise distinct; the id
\* of a chunk is the same whichever other chunks have no embedding.
C27_PointIds ==
    \A c \in 1..Len(upsertCalls) :
        LET points == upsertCalls[c]
        IN  /\ \A p, q \in 1..Len(points) :
                  (p # q) => (points[p].id # points[q].id)
            /\ Len(points) = Len(StoredPositions)
            /\ \A p \in 1..Len(points) :
                  LET k == StoredPositions[p]
                  IN  /\ points[p].payload.uid = processedEntries[k].uid
                      /\ points[p].id
                            = PointId(processedEntries[k].uid, k - 1)

\* two chunks of entry 1 are stored and the chunk between or before them has
\* no embedding
C27_Witness ==
    /\ Len(upsertCalls) = 1
    /\ Len(upsertCalls[1]) = 2
    /\ Len(processedEntries) = 3
    /\ upsertCalls[1][1].id = <<"1", "_", "0">>
    /\ upsertCalls[1][2].id = <<"1", "_", "2">>
    /\ ~NonEmptyEmbedding(2)

\* a store operation of the ingestion has been started
StoreTouched == createCalls # << >> \/ upsertCalls # << >>

\* C28: an ingestion chunks, embeds all chunks, creates the collection and
\* upserts, in this order: createCollection is called only after the whole
\* batch was embedded and upsert only after createCollection succeeded; when
\* chunking fails (invalid sizes) or the provider is not in the registry, no
\* store operation is started; when every embedding is empty the collection
\* is created, upsert is not called and pointsStored is 0.
C28_StepsInOrder ==
    /\ createCalls # << >> =>
          /\ wpc = "returned"
          /\ epc = "returned"
          /\ Len(embeddings) = Len(processedEntries)
    /\ upsertCalls # << >> =>
          /\ createCalls # << >>
          /\ storeLog # << >>
          /\ storeLog[1] = [op |-> "createCollection", kind |-> "ok", status |-> 200]
    /\ wpc = "thrown" => ~StoreTouched
    /\ providerName \notin RegistryKeys => ~StoreTouched
    /\ StoredPositions = << >> =>
          /\ upsertCalls = << >>
          /\ (ipc = "done" /\ ingestResponse.status = 200) =>
                /\ Len(createCalls) = 1
                /\ ingestResponse.pointsStored = 0

\* ----------------------------------------------------- claims on the query
Answered == spc = "done" /\ searchResponse.status = 200

\* the first n elements of a list (all of it when it is shorter, none when
\* n is not positive)
FirstN(list, n) == [k \in 1..Min(n, Len(list)) |-> list[k]]

NotReranked ==
    /\ rerankCalls = << >>
    /\ \A c \in 1..Len(searchCalls) : searchCalls[c].limit = 2 * query.limit
    /\ Answered =>
          /\ searchResponse.results = FirstN(candidates, query.limit)
          /\ \A k \in 1..Len(searchResponse.results) :
                ~searchResponse.results[k].reranked

\* C16 as stated: for every query with rerank=false the store is searched
\* with 2 x limit, the reranker is not called, and the results are the first
\* limit candidates in the store's order, none with a rerank_score.
C16_AnyLimit == (~query.rerank) => NotReranked

\* C16: the same for every query with rerank=false and 0 <= limit.
C16_NoRerankPassThrough == (~query.rerank /\ 0 <= query.limit) => NotReranked

C16_Witness ==
    /\ ~query.rerank
    /\ query.limit = 2
    /\ Answered
    /\ Len(candidates) = 3
    /\ searchCalls[1].limit = 4
    /\ Len(searchResponse.results) = 2

ExampleScores ==
    <<[index |-> 0, relevance_score |-> 9], [index |-> 1, relevance_score |-> 2],
      [index |-> 2, relevance_score |-> 5]>>

ResultIds == [k \in 1..Len(searchResponse.results) |-> searchResponse.results[k].id]

\* C17: when the reranker returned results, the final list is in descending
\* order of rerank_score: each result's rerank_score is at least the next
\* one's; the scores 9, 2, 5 for the indices 0, 1, 2 give the order 0, 2, 1.
C17_SortedByRerankScore ==
    (Answered /\ rerankAnswer.kind = "ok") =>
        /\ \A k \in 1..(Len(searchResponse.results) - 1) :
              /\ searchResponse.results[k].reranked
              /\ searchResponse.results[k + 1].reranked
              /\ searchResponse.results[k].rerank_score
                    >= searchResponse.results[k + 1].rerank_score
        /\ (rerankAnswer.results = ExampleScores /\ query.limit >= 3)
              => ResultIds = <<0, 2, 1>>

C17_Witness ==
    /\ Answered
    /\ rerankAnswer.kind = "ok"
    /\ rerankAnswer.results = ExampleScores
    /\ query.limit >= 3
    /\ ResultIds = <<0, 2, 1>>

\* C18: when the reranker was called and the query is answered, no result is
\* a candidate whose document string is empty.
C18_BlankCandidatesDropped ==
    (Answered /\ rerankCalls # << >>) =>
        \A k \in 1..Len(searchResponse.results) :
            CandidateDocument(searchResponse.results[k]) # << >>

\* the list the handler holds before the final truncation
BeforeTruncation ==
    IF rerankAnswer.kind = "ok" THEN Reranked(candidates, rerankAnswer.results)
    ELSE candidates

Truncated ==
    /\ searchResponse.results = FirstN(BeforeTruncation, query.limit)
    /\ Len(searchResponse.results) <= query.limit

\* C19 as stated: for every answered query the results are the first limit
\* elements of the list obtained after any rerank re-sort, never more than
\* limit.
C19_AnyLimit == Answered => Truncated

\* C19: the same for every answered query with 0 <= limit.
C19_TruncatedLast == (Answered /\ 0 <= query.limit) => Truncated

C19_Witness ==
    /\ Answered
    /\ query.limit = 1
    /\ Len(candidates) = 3
    /\ rerankAnswer.kind = "ok"
    /\ Len(rerankAnswer.results) = 3
    /\ Len(searchResponse.results) = 1
    /\ searchResponse.results[1].rerank_score = 9
    /\ searchResponse.results[1].id = 2

RerankFailed == rerankAnswer.kind \in {"reject", "notok", "error"}

\* C20: the reranker is called at most once per query, and when its call
\* fails the query ends with an error response that carries no results.
C20_RerankFailureIsFatal ==
    /\ Len(rerankCalls) <= 1
    /\ RerankFailed =>
          /\ spc = "done"
          /\ searchResponse = [status |-> 500, results |-> << >>]
          /\ Len(rerankCalls) = 1
          /\ Len(searchCalls) = 1

C20_Witness ==
    /\ rerankAnswer.kind = "error"
    /\ Len(candidates) = 3
    /\ query.limit = 2
    /\ searchResponse.status = 500

\* ------------------------------------------------ claims on the vector store
StoreOps == {"createCollection", "upsert", "search", "deleteRecords", "deleteCollection"}

\* the number of requests sent to the store for an operation
StoreCallsOf(op) ==
    IF op = "createCollection" THEN Len(createCalls)
    ELSE IF op = "upsert" THEN Len(upsertCalls)
    ELSE IF op = "search" THEN Len(searchCalls)
    ELSE Len(SelectSeq(deleteCalls, LAMBDA c : c = op))

\* the handler of the request has answered with this status
RespondedWith(code) ==
    \/ ipc = "done" /\ ingestResponse.status = code
    \/ spc = "done" /\ searchResponse.status = code
    \/ mpc = "done" /\ maintenanceResponse = code

\* C21: within one request each store operation is called at most once; an
\* answer that is not a success (a status that is not ok, or no answer at
\* all) is the last one of the request, reaches the handler as the one error
\* of that operation with the answer's status, and ends the request with an
\* error response: no upsert follows a failed createCollection and no rerank
\* follows a failed search.
C21_StoreFailFast ==
    /\ \A op \in StoreOps : StoreCallsOf(op) <= 1
    /\ \A k \in 1..Len(storeLog) :
          storeLog[k].kind # "ok" =>
              /\ k = Len(storeLog)
              /\ caught = [op |-> storeLog[k].op, status |-> storeLog[k].status]
              /\ RespondedWith(500)
              /\ storeLog[k].op = "createCollection" => upsertCalls = << >>
              /\ storeLog[k].op = "search" => rerankCalls = << >>

C21_Witness ==
    /\ Len(storeLog) = 2
    /\ storeLog[1] = [op |-> "createCollection", kind |-> "ok", status |-> 200]
    /\ storeLog[2] = [op |-> "upsert", kind |-> "notok", status |-> 404]
    /\ caught = [op |-> "upsert", status |-> 404]
    /\ ingestResponse.status = 500

\* -------------------------------------------- claims on the configuration
\* C22: a query uses one snapshot of the configuration: the provider its
\* rerank request is sent to is the default provider its embedding was
\* requested from, whatever configuration updates happen meanwhile.
C22_ConfigSnapshot ==
    \A c \in 1..Len(rerankCalls) : rerankCalls[c].provider = gParam.name

\* ------------------------------------------------- claims on the reranking
\* the vector search of the query was answered with candidates
SearchSucceeded ==
    /\ spc \in {"rerank", "done"}
    /\ storeLog # << >>
    /\ storeLog[1] = [op |-> "search", kind |-> "ok", status |-> 200]

\* the positions (1-based) of the candidates with a non-empty document string
DocumentPositions ==
    SelectSeq([k \in 1..Len(candidates) |-> k],
              LAMBDA k : CandidateDocument(candidates[k]) # << >>)

\* a list is the beginning of another one
IsPrefix(short, long) ==
    /\ Len(short) <= Len(long)
    /\ \A k \in 1..Len(short) : short[k] = long[k]

\* C24: the reranker is called exactly when rerank is requested, the search
\* returned a candidate and some candidate has a non-empty document string;
\* it is then called once, with the non-empty document strings in candidate
\* order and topN = limit.  Otherwise the results are in the store's order
\* and none carries a rerank_score.
C24_RerankCalledWhenNeeded ==
    /\ ~SearchSucceeded => rerankCalls = << >>
    /\ SearchSucceeded =>
          (rerankCalls # << >>
              <=> (query.rerank /\ Len(candidates) > 0 /\ DocumentPositions # << >>))
    /\ rerankCalls # << >> =>
          /\ Len(rerankCalls) = 1
          /\ rerankCalls[1].topN = query.limit
          /\ Len(rerankCalls[1].documents) = Len(DocumentPositions)
          /\ \A n \in 1..Len(DocumentPositions) :
                rerankCalls[1].documents[n]
                    = CandidateDocument(candidates[DocumentPositions[n]])
    /\ (Answered /\ rerankCalls = << >>) =>
          /\ IsPrefix(searchResponse.results, candidates)
          /\ \A k \in 1..Len(searchResponse.results) :
                ~searchResponse.results[k].reranked

C24_Witness ==
    /\ query.rerank
    /\ query.limit = 2
    /\ Len(candidates) = 3
    /\ Len(rerankCalls) = 1
    /\ rerankCalls[1].topN = 2
    /\ rerankCalls[1].documents = <<<<"x">>, <<"x", "x", "x">>>>

\* result r is the candidate at the index of reranker result rr, with rr's
\* score as its rerank_score
MappedFrom(r, rr) ==
    /\ rr.index + 1 \in 1..Len(candidates)
    /\ r.id = candidates[rr.index + 1].id
    /\ r.score = candidates[rr.index + 1].score
    /\ r.payload = candidates[rr.index + 1].payload
    /\ r.reranked
    /\ r.rerank_score = rr.relevance_score

\* C25: every result of a reranked query is the candidate at the position,
\* in the candidate list as the vector search returned it, that a reranker
\* result gives as its index, with that result's score as rerank_score; when
\* limit does not cut the list short there is exactly one result per
\* reranker result.
C25_MappedByOriginalIndex ==
    (Answered /\ rerankAnswer.kind = "ok") =>
        /\ \A k \in 1..Len(searchResponse.results) :
              \E n \in 1..Len(rerankAnswer.results) :
                  MappedFrom(searchResponse.results[k], rerankAnswer.results[n])
        /\ (query.limit >= Len(rerankAnswer.results)) =>
              /\ Len(searchResponse.results) = Len(rerankAnswer.results)
              /\ \A n \in 1..Len(rerankAnswer.results) :
                    \E k \in 1..Len(searchResponse.results) :
                        MappedFrom(searchResponse.results[k], rerankAnswer.results[n])

C25_Witness ==
    /\ Answered
    /\ rerankAnswer.kind = "ok"
    /\ Len(candidates) = 3
    /\ rerankCalls[1].documents = <<<<"x", "x">>, <<"x", "x", "x">>>>
    /\ rerankAnswer.results = <<[index |-> 1, relevance_score |-> 5],
                                [index |-> 0, relevance_score |-> 9]>>
    /\ ResultIds = <<0, 1>>

\* C26: the rerank_score of every returned result is the score the reranker
\* gave to that result's own document string: some reranker result has that
\* score and its index names, among the documents sent, the document string
\* of the result.
C26_ScoreOfOwnDocument ==
    (Answered /\ rerankAnswer.kind = "ok") =>
        \A k \in 1..Len(searchResponse.results) :
            \E n \in 1..Len(rerankAnswer.results) :
                LET rr == rerankAnswer.results[n]
                IN  /\ searchResponse.results[k].rerank_score = rr.relevance_score
                    /\ rerankCalls[1].documents[rr.index + 1]
                          = CandidateDocument(searchResponse.results[k])

====
